---- MODULE Spec2Model ----
(***************************************************************************)
(* A model of mtcs.py: the UCT Monte Carlo Tree Search driver (UCT, Node)  *)
(* and the game positions it searches (NimState, OXOState,                 *)
(* ZombieDiceState).                                                       *)
(*                                                                         *)
(* Python lists are mutable objects that can be shared, so every list a    *)
(* position holds lives in `heap` under an address and the position        *)
(* record holds the address.  Two position objects exist at a time: the    *)
(* one bound to `rootstate` and the one bound to `state`; a list allocated *)
(* by object o for its field f gets the address <<o, f>>.                  *)
(*                                                                         *)
(* Game results are the floats 0.0, 0.5 and 1.0; the model counts them in  *)
(* halves (0, 1, 2), so Node.wins is kept as wins2 = 2 * wins, which is    *)
(* exact for sums of such floats.                                          *)
(***************************************************************************)
EXTENDS Integers, Sequences, FiniteSets, TLC

VARIABLES
    rootstate,   \* the position passed to UCT / the position being played
    state,       \* the working copy made by Clone(), or NoState
    heap,        \* the list objects of the two positions, by address
    tree,        \* the Node objects of the search, in creation order
    node,        \* UCT's local `node`: an index into tree, 0 for None
    i,           \* number of completed iterations of UCT's for loop
    itermax,     \* UCT's iteration budget
    pc,          \* where the running function is
    ret,         \* what UCT returned
    created,     \* history: per node, GetMoves() of the position it was built from
    snap,        \* history: what rootstate looked like before UCT / Clone()
    cloneMoves,  \* history: the moves made on the present clone, in order
    rolls,       \* history: number of "ROLL" moves made in this run, on the
                 \* position and on its copy together (bounded by MaxRolls)
    iter         \* history: the tree when the running iteration began, the
                 \* node its select loop stopped at and the node it went on
                 \* with after the expand step

vars == <<rootstate, state, heap, tree, node, i, itermax, pc, ret,
          created, snap, cloneMoves, rolls, iter>>

-----------------------------------------------------------------------------
(* Bounds of the model *)

MaxChips == 5

MaxIter == 6

MaxEmpty == 2

MaxCloneMoves == 2

MaxRolls == 1

-----------------------------------------------------------------------------
(* Helpers for Python lists *)

None == "None"

NoState == [cls |-> None]

Owners == {"rootstate", "state"}

ListFields == {"board", "playerScores", "brains", "shotguns", "hand", "cup"}

EmptyHeap == [a \in Owners \X ListFields |-> <<>>]

Min(a, b) == IF a < b THEN a ELSE b

Contains(s, x) == \E k \in 1..Len(s) : s[k] = x

\* list.remove(x): drops the first occurrence of x; raises ValueError and
\* leaves the list as it is when x is not in it.  val is the list after
\* the call.
Remove(s, x) ==
    IF ~Contains(s, x) THEN [err |-> TRUE, val |-> s]
    ELSE LET k == CHOOSE j \in 1..Len(s) : s[j] = x /\ \A l \in 1..(j-1) : s[l] # x
         IN  [err |-> FALSE,
              val |-> SubSeq(s, 1, k-1) \o SubSeq(s, k+1, Len(s))]

\* the value outcome of a call: a value, or an exception
Ok(v) == [err |-> FALSE, val |-> v]

Raise == [err |-> TRUE, val |-> 0]

\* the outcome of a call that mutates: the new heap and position, or an exception
Cfg(h, st) == [heap |-> h, st |-> st, err |-> FALSE]

Fail(h, st) == [heap |-> h, st |-> st, err |-> TRUE]

-----------------------------------------------------------------------------
(* Game results, in halves *)

ResultWin == 2

ResultDraw == 1

ResultLoss == 0

-----------------------------------------------------------------------------
(* NimState *)

NimState(ch) == [cls |-> "Nim", playerJustMoved |-> 2, chips |-> ch]

NimClone(st) == [NimState(st.chips) EXCEPT !.playerJustMoved = st.playerJustMoved]

\* GetMoves that does not look at the chips left: range(1, 4)
NimGetMovesAnyChips(st) == <<1, 2, 3>>

\* GetMoves with range's end one too low: range(1, min([3, self.chips + 1]))
NimGetMovesOffByOne(st) ==
    LET hi == Min(3, st.chips + 1)
    IN  IF hi <= 1 THEN <<>> ELSE [k \in 1..(hi - 1) |-> k]

NimGetMoves(st) ==
    LET hi == Min(4, st.chips + 1)
    IN  IF hi <= 1 THEN <<>> ELSE [k \in 1..(hi - 1) |-> k]

NimDoMove(h, st, move) ==
    IF ~(move >= 1 /\ move <= 3)
    THEN Fail(h, st)
    ELSE Cfg(h, [st EXCEPT !.chips = @ - move,
                           !.playerJustMoved = 3 - @])

NimGetResult(st, playerjm) ==
    IF st.chips # 0 THEN Raise
    ELSE IF st.playerJustMoved = playerjm THEN Ok(ResultWin)
    ELSE Ok(ResultLoss)

-----------------------------------------------------------------------------
(* OXOState: squares 0..8 are board[1..9] *)

OXOLines == << <<0,1,2>>, <<3,4,5>>, <<6,7,8>>, <<0,3,6>>,
               <<1,4,7>>, <<2,5,8>>, <<0,4,8>>, <<2,4,6>> >>

OXOState(h, self) ==
    Cfg([h EXCEPT ![<<self, "board">>] = <<0,0,0,0,0,0,0,0,0>>],
        [cls |-> "OXO", self |-> self, playerJustMoved |-> 2,
         board |-> <<self, "board">>])

\* a copy that shares the board list: st.board = self.board
OXOCloneAliased(h, st, new) ==
    LET c == OXOState(h, new)
    IN  Cfg(c.heap, [c.st EXCEPT !.playerJustMoved = st.playerJustMoved,
                                 !.board = st.board])

\* st.board = self.board[:] makes a new list with the same elements
OXOClone(h, st, new) ==
    LET c == OXOState(h, new)
    IN  Cfg([c.heap EXCEPT ![<<new, "board">>] = h[st.board]],
            [c.st EXCEPT !.playerJustMoved = st.playerJustMoved,
                         !.board = <<new, "board">>])

OXOGetMoves(h, st) ==
    LET b == h[st.board]
        RECURSIVE Scan(_)
        Scan(k) == IF k > 8 THEN <<>>
                   ELSE (IF b[k+1] = 0 THEN <<k>> ELSE <<>>) \o Scan(k+1)
    IN  Scan(0)

OXODoMove(h, st, move) ==
    IF ~(move >= 0 /\ move <= 8) THEN Fail(h, st)
    ELSE IF h[st.board][move + 1] # 0 THEN Fail(h, st)
    ELSE LET pjm == 3 - st.playerJustMoved
         IN  Cfg([h EXCEPT ![st.board][move + 1] = pjm],
                 [st EXCEPT !.playerJustMoved = pjm])

OXOGetResult(h, st, playerjm) ==
    LET b == h[st.board]
        Full(k) == b[OXOLines[k][1] + 1] = b[OXOLines[k][2] + 1]
                   /\ b[OXOLines[k][2] + 1] = b[OXOLines[k][3] + 1]
        hits == {k \in 1..Len(OXOLines) : Full(k)}
    IN  IF hits # {}
        THEN LET k == CHOOSE j \in hits : \A l \in hits : j <= l
             IN  IF b[OXOLines[k][1] + 1] = playerjm
                 THEN Ok(ResultWin) ELSE Ok(ResultLoss)
        ELSE IF OXOGetMoves(h, st) = <<>> THEN Ok(ResultDraw)
        ELSE Raise

-----------------------------------------------------------------------------
(* ZombieDiceState: playerScores[p] is the list element p + 1 *)

WinningBrains == 13

MaxShotguns == 3

HandSize == 3

Colours == {"red", "yellow", "green"}

NewCup == <<"red", "red", "red", "yellow", "yellow", "yellow", "yellow",
            "green", "green", "green", "green", "green", "green">>

ZDStartRound(h, st) ==
    LET s == st.self
    IN  Cfg([h EXCEPT ![<<s, "brains">>] = <<>>,
                      ![<<s, "shotguns">>] = <<>>,
                      ![<<s, "hand">>] = <<>>,
                      ![<<s, "cup">>] = NewCup],
            [st EXCEPT !.round = @ + 1,
                       !.rollCount = 0,
                       !.score = 0,
                       !.brains = <<s, "brains">>,
                       !.shotguns = <<s, "shotguns">>,
                       !.hand = <<s, "hand">>,
                       !.cup = <<s, "cup">>])

ZombieDiceState(h, self) ==
    LET unset == <<self, "playerScores">>
        r == ZDStartRound(
                 [h EXCEPT ![<<self, "playerScores">>] = <<0, 0, 0>>],
                 [cls |-> "ZombieDice", self |-> self, playerJustMoved |-> 0,
                  playerScores |-> <<self, "playerScores">>,
                  round |-> 0, lastRound |-> FALSE, tiebreaker |-> FALSE,
                  ended |-> FALSE, rollCount |-> 0, score |-> 0,
                  brains |-> unset, shotguns |-> unset, hand |-> unset,
                  cup |-> unset])
    IN  Cfg(r.heap, [r.st EXCEPT !.playerJustMoved = 1])

\* Clone copies every attribute except rollCount, which keeps the value the
\* constructor's StartRound gave it
ZDClone(h, st, new) ==
    LET c == ZombieDiceState(h, new)
    IN  Cfg([c.heap EXCEPT ![<<new, "playerScores">>] = h[st.playerScores],
                           ![<<new, "brains">>] = h[st.brains],
                           ![<<new, "shotguns">>] = h[st.shotguns],
                           ![<<new, "hand">>] = h[st.hand],
                           ![<<new, "cup">>] = h[st.cup]],
            [c.st EXCEPT !.playerScores = <<new, "playerScores">>,
                         !.round = st.round,
                         !.lastRound = st.lastRound,
                         !.tiebreaker = st.tiebreaker,
                         !.ended = st.ended,
                         !.playerJustMoved = st.playerJustMoved,
                         !.score = st.score,
                         !.brains = <<new, "brains">>,
                         !.shotguns = <<new, "shotguns">>,
                         !.hand = <<new, "hand">>,
                         !.cup = <<new, "cup">>])

ZDGetMoves(st) ==
    IF st.ended THEN <<>>
    ELSE IF st.rollCount = 0 THEN <<"ROLL">>
    ELSE <<"ROLL", "KEEP">>

ZDGetResult(h, st, playerjm) ==
    IF ~st.ended THEN Raise
    ELSE LET ps == h[st.playerScores]
             mine == ps[playerjm + 1]
             theirs == ps[(3 - playerjm) + 1]
         IN  IF mine > theirs THEN Ok(ResultWin)
             ELSE IF mine < theirs THEN Ok(ResultLoss)
             ELSE Ok(ResultDraw)

ZDEndRound(h, st) ==
    LET pjm == 3 - st.playerJustMoved
        h1 == IF Len(h[st.shotguns]) < MaxShotguns
              THEN [h EXCEPT ![st.playerScores][pjm + 1] = @ + st.score]
              ELSE h
        ps == h1[st.playerScores]
        ended1 == IF st.tiebreaker THEN TRUE ELSE st.ended
        final == st.lastRound /\ pjm = 2
        tie2 == IF final THEN ps[2] = ps[3] ELSE st.tiebreaker
        ended2 == IF final THEN ~tie2 ELSE ended1
        last2 == IF ps[pjm + 1] >= WinningBrains THEN TRUE ELSE st.lastRound
    IN  ZDStartRound(h1, [st EXCEPT !.playerJustMoved = pjm,
                                    !.tiebreaker = tie2,
                                    !.ended = ended2,
                                    !.lastRound = last2])

\* random.randint(1, 6) read on a die of the given colour
ZDDoRollDie(die, roll) ==
    CASE die = "red" ->
             (IF roll \in {1, 2, 3} THEN "shotgun"
              ELSE IF roll \in {4, 5} THEN "footsteps" ELSE "brains")
      [] die = "yellow" ->
             (IF roll \in {1, 2} THEN "shotgun"
              ELSE IF roll \in {3, 4} THEN "footsteps" ELSE "brains")
      [] die = "green" ->
             (IF roll \in {1} THEN "shotgun"
              ELSE IF roll \in {2, 3} THEN "footsteps" ELSE "brains")

\* the faces a die of this colour can show
Faces(die) == {ZDDoRollDie(die, roll) : roll \in 1..6}

\* the while loop of DoRollHand: picks[k] is the k-th random.choice(self.cup)
RECURSIVE ZDDraw(_, _, _, _)
ZDDraw(cup, hand, picks, k) ==
    IF Len(hand) >= HandSize THEN [cup |-> cup, hand |-> hand, err |-> FALSE]
    ELSE LET rm == Remove(cup, picks[k])
         IN  IF rm.err THEN [cup |-> cup, hand |-> hand, err |-> TRUE]
             ELSE ZDDraw(rm.val, Append(hand, picks[k]), picks, k + 1)

\* the picks random.choice can make while the hand is filled from this cup
RECURSIVE ZDPicks(_, _)
ZDPicks(cup, need) ==
    IF need <= 0 THEN {<<>>}
    ELSE UNION {{<<c>> \o rest : rest \in ZDPicks(Remove(cup, c).val, need - 1)} :
                c \in {cup[k] : k \in 1..Len(cup)}}

\* one pass of the for loop of DoRollHand: the die goes to shotguns or to
\* brains, and then hand.remove(die) may raise
ZDRollStep(r, die, face) ==
    IF face = "shotgun"
    THEN [r EXCEPT !.shotguns = Append(@, die),
                   !.hand = Remove(@, die).val,
                   !.err = Remove(r.hand, die).err]
    ELSE IF face = "brains"
    THEN [r EXCEPT !.score = @ + 1,
                   !.brains = Append(@, die),
                   !.hand = Remove(@, die).val,
                   !.err = Remove(r.hand, die).err]
    ELSE r

\* the for loop of DoRollHand over the copy of the hand: faces[k] is the
\* result of DoRollDie for the k-th die of the copy; the loop stops at a
\* hand.remove(die) that raises
RECURSIVE ZDRollLoop(_, _, _, _)
ZDRollLoop(r, copy, faces, k) ==
    IF k > Len(copy) \/ r.err THEN r
    ELSE ZDRollLoop(ZDRollStep(r, copy[k], faces[k]), copy, faces, k + 1)

\* cup and brains after the "ran out of dice" test of DoRollHand
ZDRefill(h, st) ==
    IF HandSize - Len(h[st.hand]) > Len(h[st.cup])
    THEN Cfg([h EXCEPT ![st.cup] = @ \o h[st.brains],
                       ![<<st.self, "brains">>] = <<>>],
             [st EXCEPT !.brains = <<st.self, "brains">>])
    ELSE Cfg(h, st)

\* DoRollHand from the draw on: d is the outcome of the while loop
ZDRollDrawn(h, st, d, r) ==
    IF d.err
    THEN Fail([h EXCEPT ![st.cup] = d.cup, ![st.hand] = d.hand], st)
    ELSE [heap |-> [h EXCEPT ![st.cup] = d.cup,
                             ![st.hand] = r.hand,
                             ![st.shotguns] = r.shotguns,
                             ![st.brains] = r.brains],
          st |-> [st EXCEPT !.rollCount = @ + 1, !.score = r.score],
          err |-> r.err]

\* DoRollHand from the for loop on: f is the position after the "ran out
\* of dice" test, d the outcome of the while loop
ZDRollFrom(f, d, faces) ==
    ZDRollDrawn(f.heap, f.st, d,
                ZDRollLoop([hand |-> d.hand, shotguns |-> f.heap[f.st.shotguns],
                            brains |-> f.heap[f.st.brains],
                            score |-> f.st.score, err |-> FALSE],
                           d.hand, faces, 1))

\* DoRollHand from the while loop on
ZDDrawFrom(f, picks, faces) ==
    ZDRollFrom(f, ZDDraw(f.heap[f.st.cup], f.heap[f.st.hand], picks, 1), faces)

ZDDoRollHand(h, st, picks, faces) ==
    ZDDrawFrom(ZDRefill(h, st), picks, faces)

\* the dice random.choice can draw, in order, in one "ROLL" of this position
ZDRandomPicks(h, st) ==
    LET f == ZDRefill(h, st)
    IN  ZDPicks(f.heap[f.st.cup], HandSize - Len(f.heap[f.st.hand]))

\* the results DoRollDie can give for the dice of the hand, in order
ZDRandomFaces == [1..HandSize -> {"shotgun", "footsteps", "brains"}]

\* the random choices one "ROLL" of this position can draw
ZDRandom(h, st) ==
    {[picks |-> p, faces |-> fs] :
        p \in ZDRandomPicks(h, st), fs \in ZDRandomFaces}

\* DoMove("ROLL") after DoRollHand, whose outcome is r:
\* if len(self.shotguns) >= 3: self.EndRound()
ZDAfterRoll(r) ==
    IF ~r.err /\ Len(r.heap[r.st.shotguns]) >= MaxShotguns
    THEN ZDEndRound(r.heap, r.st)
    ELSE r

ZDDoMove(h, st, move, rnd) ==
    IF st.ended THEN Cfg(h, st)
    ELSE IF ~(Len(h[st.shotguns]) < MaxShotguns) THEN Fail(h, st)
    ELSE IF move = "ROLL"
    THEN ZDAfterRoll(ZDDoRollHand(h, st, rnd.picks, rnd.faces))
    ELSE IF move = "KEEP" THEN ZDEndRound(h, st)
    ELSE Fail(h, st)

-----------------------------------------------------------------------------
(* The state capability, dispatched on the class of the position *)

NoRandom == [picks |-> <<>>, faces |-> <<>>]

Clone(h, st, new) ==
    CASE st.cls = "Nim" -> Cfg(h, NimClone(st))
      [] st.cls = "OXO" -> OXOClone(h, st, new)
      [] st.cls = "ZombieDice" -> ZDClone(h, st, new)

GetMoves(h, st) ==
    CASE st.cls = "Nim" -> NimGetMoves(st)
      [] st.cls = "OXO" -> OXOGetMoves(h, st)
      [] st.cls = "ZombieDice" -> ZDGetMoves(st)

DoMove(h, st, move, rnd) ==
    CASE st.cls = "Nim" -> NimDoMove(h, st, move)
      [] st.cls = "OXO" -> OXODoMove(h, st, move)
      [] st.cls = "ZombieDice" -> ZDDoMove(h, st, move, rnd)

GetResult(h, st, playerjm) ==
    CASE st.cls = "Nim" -> NimGetResult(st, playerjm)
      [] st.cls = "OXO" -> OXOGetResult(h, st, playerjm)
      [] st.cls = "ZombieDice" -> ZDGetResult(h, st, playerjm)

\* the random inputs a DoMove(move) on this position can consume
Random(h, st, move) ==
    IF st.cls = "ZombieDice" /\ move = "ROLL" /\ ~st.ended
    THEN ZDRandom(h, st)
    ELSE {NoRandom}

\* the same random inputs, choice by choice
RandomPicks(h, st, move) ==
    IF st.cls = "ZombieDice" /\ move = "ROLL" /\ ~st.ended
    THEN ZDRandomPicks(h, st)
    ELSE {NoRandom.picks}

RandomFaces(st, move) ==
    IF st.cls = "ZombieDice" /\ move = "ROLL" /\ ~st.ended
    THEN ZDRandomFaces
    ELSE {NoRandom.faces}

-----------------------------------------------------------------------------
(* What a caller can observe of a position *)

Elems(s) == {s[k] : k \in 1..Len(s)}

Data(h, st) ==
    CASE st.cls = "Nim" -> <<st.chips>>
      [] st.cls = "OXO" -> <<h[st.board]>>
      [] st.cls = "ZombieDice" ->
             <<h[st.playerScores], st.round, st.lastRound, st.tiebreaker,
               st.ended, st.rollCount, st.score, h[st.brains],
               h[st.shotguns], h[st.hand], h[st.cup]>>

Observe(h, st) ==
    [moves |-> GetMoves(h, st),
     playerJustMoved |-> st.playerJustMoved,
     results |-> <<GetResult(h, st, 1), GetResult(h, st, 2)>>,
     data |-> Data(h, st)]

NoSnap == [moves |-> <<>>]

NoReturn == [returned |-> FALSE]

NoIter == [tree |-> <<>>, stop |-> 0, leaf |-> 0]

IsRoll(st, move) == st.cls = "ZombieDice" /\ move = "ROLL" /\ ~st.ended

-----------------------------------------------------------------------------
(* Node *)

\* a constructor that counts the creation as a visit: self.visits = 1
NewNodeCounted(m, parent, h, st) ==
    [move |-> m, parentNode |-> parent, childNodes |-> <<>>, wins2 |-> 0,
     visits |-> 1, untriedMoves |-> GetMoves(h, st),
     playerJustMoved |-> st.playerJustMoved]

\* Node.__init__
NewNode(m, parent, h, st) ==
    [move |-> m, parentNode |-> parent, childNodes |-> <<>>, wins2 |-> 0,
     visits |-> 0, untriedMoves |-> GetMoves(h, st),
     playerJustMoved |-> st.playerJustMoved]

\* sqrt(2*log(N)/v) in units of 1e-8, rounded: row N, column v
UCBExploreTable ==
    << <<0, 0, 0, 0, 0, 0, 0, 0>>,
       <<117741002, 83255461, 67977799, 58870501, 52655377, 48067563, 44501916, 41627731>>,
       <<148230381, 104814707, 85580850, 74115190, 66290642, 60514800, 56025818, 52407354>>,
       <<166510922, 117741002, 96135126, 83255461, 74465948, 67977799, 62935213, 58870501>>,
       <<179412258, 126863624, 103583715, 89706129, 80235601, 73244748, 67811459, 63431812>>,
       <<189301847, 133856620, 109293472, 94650924, 84658360, 77282156, 71549373, 66928310>>,
       <<197276970, 139495883, 113897912, 98638485, 88224943, 80537986, 74563686, 69747942>>,
       <<203933398, 144202689, 117741002, 101966699, 91201788, 83255461, 77079579, 72101344>> >>

\* the sort key c.wins/c.visits + sqrt(2*log(self.visits)/c.visits) of child
\* c of node n, in units of 1e-8 (wins/visits is wins2/(2*visits))
UCB(t, n, c) ==
    (t[c].wins2 * 50000000) \div t[c].visits
        + UCBExploreTable[t[n].visits][t[c].visits]

\* log(0) and a division by zero raise
UCBDefined(t, n) ==
    /\ t[n].visits >= 1
    /\ \A k \in 1..Len(t[n].childNodes) : t[t[n].childNodes[k]].visits >= 1

\* a selection that takes the first of the children with the greatest key
UCTSelectChildFirst(t, n) ==
    LET cs == t[n].childNodes
        k == CHOOSE j \in 1..Len(cs) :
                 /\ \A l \in 1..Len(cs) : UCB(t, n, cs[l]) <= UCB(t, n, cs[j])
                 /\ \A l \in 1..(j-1) : UCB(t, n, cs[l]) < UCB(t, n, cs[j])
    IN  cs[k]

\* sorted(childNodes, key = UCB)[-1]: the sort is stable, so of the children
\* with the greatest key the one latest in childNodes comes last
UCTSelectChild(t, n) ==
    LET cs == t[n].childNodes
        k == CHOOSE j \in 1..Len(cs) :
                 /\ \A l \in 1..Len(cs) : UCB(t, n, cs[l]) <= UCB(t, n, cs[j])
                 /\ \A l \in (j+1)..Len(cs) : UCB(t, n, cs[l]) < UCB(t, n, cs[j])
    IN  cs[k]

\* AddChild that leaves m in untriedMoves
AddChildKeepsMove(t, n, m, h, st) ==
    [err |-> FALSE,
     tree |-> Append([t EXCEPT ![n].childNodes = Append(@, Len(t) + 1)],
                     NewNode(m, n, h, st))]

\* AddChild that does not append the new node to childNodes
AddChildNoAppend(t, n, m, h, st) ==
    LET rm == Remove(t[n].untriedMoves, m)
    IN  IF rm.err THEN [err |-> TRUE, tree |-> t]
        ELSE [err |-> FALSE,
              tree |-> Append([t EXCEPT ![n].untriedMoves = rm.val],
                              NewNode(m, n, h, st))]

\* Node.AddChild: the new node is the last of the tree.  When m is not in
\* untriedMoves, untriedMoves.remove(m) raises ValueError before the node
\* is appended to childNodes: the tree stays as it is and the node just
\* constructed is dropped.
AddChild(t, n, m, h, st) ==
    LET rm == Remove(t[n].untriedMoves, m)
    IN  IF rm.err THEN [err |-> TRUE, tree |-> t]
        ELSE [err |-> FALSE,
              tree |-> Append([t EXCEPT ![n].untriedMoves = rm.val,
                                        ![n].childNodes = Append(@, Len(t) + 1)],
                              NewNode(m, n, h, st))]

\* Update that adds the result as an integer: self.wins += int(result)
UpdateIntResult(t, n, result) ==
    [t EXCEPT ![n].visits = @ + 1, ![n].wins2 = @ + 2 * (result \div 2)]

\* Update that leaves the root alone
UpdateSkipsRoot(t, n, result) ==
    IF t[n].parentNode = 0 THEN t
    ELSE [t EXCEPT ![n].visits = @ + 1, ![n].wins2 = @ + result]

\* Update that forgets the visit
UpdateNoVisit(t, n, result) ==
    [t EXCEPT ![n].wins2 = @ + result]

\* Node.Update
Update(t, n, result) ==
    [t EXCEPT ![n].visits = @ + 1, ![n].wins2 = @ + result]

\* sorted(rootnode.childNodes, key = visits)[0]
LeastVisited(t) ==
    LET cs == t[1].childNodes
        k == CHOOSE j \in 1..Len(cs) :
                 /\ \A l \in 1..Len(cs) : t[cs[j]].visits <= t[cs[l]].visits
                 /\ \A l \in 1..(j-1) : t[cs[j]].visits < t[cs[l]].visits
    IN  cs[k]

\* sorted(rootnode.childNodes, key = visits)[-1]
MostVisited(t) ==
    LET cs == t[1].childNodes
        k == CHOOSE j \in 1..Len(cs) :
                 /\ \A l \in 1..Len(cs) : t[cs[l]].visits <= t[cs[j]].visits
                 /\ \A l \in (j+1)..Len(cs) : t[cs[l]].visits < t[cs[j]].visits
    IN  cs[k]

-----------------------------------------------------------------------------
(* UCT(rootstate, itermax)                                                 *)

\* OXO boards play can reach in which every square before the last
\* MaxEmpty squares is taken: X (player 1) moved first and the players
\* alternated, and the game goes on after a line is made
OXOBoards ==
    {b \in [1..9 -> 0..2] :
        LET x == Cardinality({k \in 1..9 : b[k] = 1})
            o == Cardinality({k \in 1..9 : b[k] = 2})
        IN  /\ \A k \in 1..(9 - MaxEmpty) : b[k] # 0
            /\ x - o \in {0, 1}}

OXOPosition(h, self, b) ==
    LET c == OXOState(h, self)
        x == Cardinality({k \in 1..9 : b[k] = 1})
        o == Cardinality({k \in 1..9 : b[k] = 2})
    IN  Cfg([c.heap EXCEPT ![c.st.board] = b],
            [c.st EXCEPT !.playerJustMoved = IF x > o THEN 1 ELSE 2])

\* The positions UCT is called on: Nim with 0..MaxChips chips and the OXO
\* boards above.  The search is modelled over the deterministic games, the
\* ones UCT's tree of moves stands for positions in.
RootPositions ==
    {Cfg(EmptyHeap, NimState(ch)) : ch \in 0..MaxChips}
    \cup {OXOPosition(EmptyHeap, "rootstate", b) : b \in OXOBoards}

\* rootnode = Node(state = rootstate)
Init ==
    /\ \E c \in RootPositions :
         /\ rootstate = c.st
         /\ heap = c.heap
         /\ tree = <<NewNode(None, 0, c.heap, c.st)>>
         /\ created = <<GetMoves(c.heap, c.st)>>
         /\ snap = Observe(c.heap, c.st)
    /\ itermax \in 0..MaxIter
    /\ state = NoState
    /\ node = 0
    /\ i = 0
    /\ pc = "for"
    /\ ret = NoReturn
    /\ cloneMoves = <<>>
    /\ rolls = 0
    /\ iter = NoIter

\* for i in range(itermax): node = rootnode; state = rootstate.Clone()
Iterate ==
    /\ pc = "for"
    /\ i < itermax
    /\ node' = 1
    /\ LET c == Clone(heap, rootstate, "state")
       IN  /\ state' = c.st
           /\ heap' = c.heap
    /\ pc' = "select"
    /\ iter' = [tree |-> tree, stop |-> 0, leaf |-> 0]
    /\ UNCHANGED <<rootstate, tree, i, itermax, ret, created, snap,
                   cloneMoves, rolls>>

\* a select loop condition that forgets the untried moves:
\* while node.childNodes != []
FullyExpandedAnyChild(t, n) == t[n].childNodes # <<>>

FullyExpanded(t, n) == t[n].untriedMoves = <<>> /\ t[n].childNodes # <<>>

\* Select: one turn of the while loop
Select ==
    /\ pc = "select"
    /\ FullyExpanded(tree, node)
    /\ IF ~UCBDefined(tree, node)
       THEN /\ pc' = "error"
            /\ UNCHANGED <<node, state, heap>>
       ELSE LET n == UCTSelectChild(tree, node)
                r == DoMove(heap, state, tree[n].move, NoRandom)
            IN  /\ node' = n
                /\ state' = r.st
                /\ heap' = r.heap
                /\ pc' = IF r.err THEN "error" ELSE pc
    /\ UNCHANGED <<rootstate, tree, i, itermax, ret, created, snap,
                   cloneMoves, rolls>>
    /\ UNCHANGED iter

\* an expand step written as a loop: while node.untriedMoves != []
ExpandAsWhile ==
    /\ pc = "select"
    /\ ~FullyExpanded(tree, node)
    /\ tree[node].untriedMoves # <<>>
    /\ \E k \in 1..Len(tree[node].untriedMoves) :
         LET m == tree[node].untriedMoves[k]
             r == DoMove(heap, state, m, NoRandom)
             a == AddChild(tree, node, m, r.heap, r.st)
         IN  /\ state' = r.st
             /\ heap' = r.heap
             /\ IF r.err \/ a.err
                THEN /\ pc' = "error"
                     /\ UNCHANGED <<tree, node, created, iter>>
                ELSE /\ tree' = a.tree
                     /\ created' = Append(created, GetMoves(r.heap, r.st))
                     /\ node' = Len(tree) + 1
                     /\ iter' = [iter EXCEPT !.stop = node,
                                             !.leaf = Len(tree) + 1]
                     /\ pc' = "select"
    /\ UNCHANGED <<rootstate, i, itermax, ret, snap, cloneMoves, rolls>>

\* Expand: the select loop is over and the node has an untried move
Expand ==
    /\ pc = "select"
    /\ ~FullyExpanded(tree, node)
    /\ tree[node].untriedMoves # <<>>
    /\ \E k \in 1..Len(tree[node].untriedMoves) :
         LET m == tree[node].untriedMoves[k]
             r == DoMove(heap, state, m, NoRandom)
             a == AddChild(tree, node, m, r.heap, r.st)
         IN  /\ state' = r.st
             /\ heap' = r.heap
             /\ IF r.err \/ a.err
                THEN /\ pc' = "error"
                     /\ UNCHANGED <<tree, node, created, iter>>
                ELSE /\ tree' = a.tree
                     /\ created' = Append(created, GetMoves(r.heap, r.st))
                     /\ node' = Len(tree) + 1
                     /\ iter' = [iter EXCEPT !.stop = node,
                                             !.leaf = Len(tree) + 1]
                     /\ pc' = "rollout"
    /\ UNCHANGED <<rootstate, i, itermax, ret, snap, cloneMoves, rolls>>

\* Expand: the select loop is over and the node has no untried move
SkipExpand ==
    /\ pc = "select"
    /\ ~FullyExpanded(tree, node)
    /\ tree[node].untriedMoves = <<>>
    /\ pc' = "rollout"
    /\ iter' = [iter EXCEPT !.stop = node, !.leaf = node]
    /\ UNCHANGED <<rootstate, state, heap, tree, node, i, itermax, ret,
                   created, snap, cloneMoves, rolls>>

\* Rollout: one turn of the while loop
Rollout ==
    /\ pc = "rollout"
    /\ GetMoves(heap, state) # <<>>
    /\ \E k \in 1..Len(GetMoves(heap, state)) :
         LET r == DoMove(heap, state, GetMoves(heap, state)[k], NoRandom)
         IN  /\ state' = r.st
             /\ heap' = r.heap
             /\ pc' = IF r.err THEN "error" ELSE pc
    /\ UNCHANGED <<rootstate, tree, node, i, itermax, ret, created, snap,
                   cloneMoves, rolls>>
    /\ UNCHANGED iter

\* Rollout: the position has no moves
RolloutDone ==
    /\ pc = "rollout"
    /\ GetMoves(heap, state) = <<>>
    /\ pc' = "backpropagate"
    /\ UNCHANGED <<rootstate, state, heap, tree, node, i, itermax, ret,
                   created, snap, cloneMoves, rolls>>
    /\ UNCHANGED iter

\* a backpropagation that takes every result from the root's viewpoint:
\* state.GetResult(rootnode.playerJustMoved)
BackpropagateRootView ==
    /\ pc = "backpropagate"
    /\ node # 0
    /\ LET res == GetResult(heap, state, tree[1].playerJustMoved)
       IN  IF res.err
           THEN /\ pc' = "error"
                /\ UNCHANGED <<tree, node>>
           ELSE /\ tree' = Update(tree, node, res.val)
                /\ node' = tree[node].parentNode
                /\ pc' = pc
    /\ UNCHANGED <<rootstate, state, heap, i, itermax, ret, created, snap,
                   cloneMoves, rolls, iter>>

\* a backpropagation that updates the node the iteration ended at and stops
BackpropagateLeafOnly ==
    /\ pc = "backpropagate"
    /\ node # 0
    /\ LET res == GetResult(heap, state, tree[node].playerJustMoved)
       IN  IF res.err
           THEN /\ pc' = "error"
                /\ UNCHANGED <<tree, node>>
           ELSE /\ tree' = Update(tree, node, res.val)
                /\ node' = 0
                /\ pc' = pc
    /\ UNCHANGED <<rootstate, state, heap, i, itermax, ret, created, snap,
                   cloneMoves, rolls, iter>>

\* Backpropagate: one turn of the while loop
Backpropagate ==
    /\ pc = "backpropagate"
    /\ node # 0
    /\ LET res == GetResult(heap, state, tree[node].playerJustMoved)
       IN  IF res.err
           THEN /\ pc' = "error"
                /\ UNCHANGED <<tree, node>>
           ELSE /\ tree' = Update(tree, node, res.val)
                /\ node' = tree[node].parentNode
                /\ pc' = pc
    /\ UNCHANGED <<rootstate, state, heap, i, itermax, ret, created, snap,
                   cloneMoves, rolls>>
    /\ UNCHANGED iter

\* Backpropagate: node is None, the iteration is over
EndIteration ==
    /\ pc = "backpropagate"
    /\ node = 0
    /\ i' = i + 1
    /\ pc' = "for"
    /\ UNCHANGED <<rootstate, state, heap, tree, node, itermax, ret,
                   created, snap, cloneMoves, rolls>>
    /\ UNCHANGED iter

\* return sortedChildren[-1].move
Return ==
    /\ pc = "for"
    /\ i >= itermax
    /\ tree[1].childNodes # <<>>
    /\ ret' = [returned |-> TRUE, move |-> tree[MostVisited(tree)].move]
    /\ pc' = "done"
    /\ UNCHANGED <<rootstate, state, heap, tree, node, i, itermax, created,
                   snap, cloneMoves, rolls>>
    /\ UNCHANGED iter

\* a return that yields None when the root has no children
ReturnsNone ==
    /\ pc = "for"
    /\ i >= itermax
    /\ tree[1].childNodes = <<>>
    /\ ret' = [returned |-> TRUE, move |-> None]
    /\ pc' = "done"
    /\ UNCHANGED <<rootstate, state, heap, tree, node, i, itermax, created,
                   snap, cloneMoves, rolls>>
    /\ UNCHANGED iter

\* sortedChildren[-1] of an empty list raises IndexError
ReturnFails ==
    /\ pc = "for"
    /\ i >= itermax
    /\ tree[1].childNodes = <<>>
    /\ pc' = "error"
    /\ UNCHANGED <<rootstate, state, heap, tree, node, i, itermax, ret,
                   created, snap, cloneMoves, rolls>>
    /\ UNCHANGED iter

Next ==
    \/ Iterate
    \/ Select
    \/ Expand
    \/ SkipExpand
    \/ Rollout
    \/ RolloutDone
    \/ Backpropagate
    \/ EndIteration
    \/ Return
    \/ ReturnFails

Spec == Init /\ [][Next]_vars

-----------------------------------------------------------------------------
(* Properties of the search *)

Nodes == 1..Len(tree)

Children(n) == Elems(tree[n].childNodes)

ChildMoves(n) == [k \in 1..Len(tree[n].childNodes) |-> tree[tree[n].childNodes[k]].move]

NoDuplicates(s) == \A j, k \in 1..Len(s) : j # k => s[j] # s[k]

RootTerminal == created[1] = <<>>

\* the moves from the root to node n
RECURSIVE PathTo(_)
PathTo(n) ==
    IF tree[n].parentNode = 0 THEN <<>>
    ELSE Append(PathTo(tree[n].parentNode), tree[n].move)

\* the position the moves ms lead to from the root position, played on a
\* copy of it
RECURSIVE PlayAll(_, _)
PlayAll(c, ms) ==
    IF ms = <<>> THEN c
    ELSE PlayAll(DoMove(c.heap, c.st, Head(ms), NoRandom), Tail(ms))

PositionOf(n) == PlayAll(Clone(heap, rootstate, "state"), PathTo(n))

\* C1: for a non-terminal root position the root's visit counter is i
\* after the i-th iteration, and the iteration budget when UCT returns.
C1_RootVisitsEqualIterations ==
    /\ (~RootTerminal /\ pc = "for") => tree[1].visits = i
    /\ pc = "done" => tree[1].visits = itermax

C1_Witness ==
    pc = "done" /\ itermax = 4 /\ tree[1].visits = 4 /\ Len(tree) >= 4

\* C2: UCT returns the move of a child of the root that no other child of
\* the root has more visits than, and that move is a legal move of the
\* root position.
C2_ReturnsMostVisited ==
    pc = "done" =>
        /\ ret.returned
        /\ \E c \in Children(1) :
             /\ ret.move = tree[c].move
             /\ \A d \in Children(1) : tree[d].visits <= tree[c].visits
        /\ Contains(GetMoves(heap, rootstate), ret.move)

\* the returned child is the most visited one although another child has
\* the higher win ratio
C2_Witness ==
    /\ pc = "done"
    /\ \E c, d \in Children(1) :
         /\ ret.move = tree[c].move
         /\ tree[d].visits < tree[c].visits
         /\ tree[d].wins2 * tree[c].visits > tree[c].wins2 * tree[d].visits

\* C3: after every completed iteration every node has visits >= 1 and
\* 0 <= wins <= visits (wins2 is twice wins).
C3_StatisticBounds ==
    (pc \in {"for", "done"} /\ i >= 1) =>
        \A n \in Nodes :
            /\ tree[n].visits >= 1
            /\ 0 <= tree[n].wins2
            /\ tree[n].wins2 <= 2 * tree[n].visits

\* a node that won every visit, one that lost every visit, and a draw
C3_Witness ==
    /\ pc = "for"
    /\ i >= 3
    /\ \E n \in Nodes : tree[n].visits >= 2 /\ tree[n].wins2 = 2 * tree[n].visits
    /\ \E n \in Nodes : tree[n].visits >= 2 /\ tree[n].wins2 = 0
    /\ \E n \in Nodes : tree[n].wins2 % 2 = 1

C4_Partition ==
    \A n \in Nodes :
        /\ Elems(tree[n].untriedMoves) \cap Elems(ChildMoves(n)) = {}
        /\ NoDuplicates(tree[n].untriedMoves \o ChildMoves(n))
        /\ Elems(tree[n].untriedMoves) \cup Elems(ChildMoves(n)) = Elems(created[n])

C4_NeverAddedBack ==
    \A n \in Nodes : Elems(tree'[n].untriedMoves) \subseteq Elems(tree[n].untriedMoves)

\* C4: at every point the untried moves of a node and the moves of its
\* children are disjoint, without duplicates, and together are the legal
\* moves found when the node was created; no step puts a move back into
\* untriedMoves.
C4_UntriedChildPartition == [](C4_Partition) /\ [][C4_NeverAddedBack]_vars

\* a node with two children and a move still untried
C4_Witness ==
    \E n \in Nodes :
        /\ Len(tree[n].childNodes) >= 2
        /\ tree[n].untriedMoves # <<>>
        /\ Len(created[n]) >= 3

\* C5: in a search over Nim or OXO a node has no untried move and no child
\* exactly when the position its moves lead to from the root has no legal
\* move; such a node is never expanded.
C5_TerminalIffBare ==
    \A n \in Nodes :
        (tree[n].untriedMoves = <<>> /\ tree[n].childNodes = <<>>)
            <=> (GetMoves(PositionOf(n).heap, PositionOf(n).st) = <<>>)

\* a node of a terminal position below the root that three iterations
\* have reached
C5_Witness ==
    \E n \in Nodes :
        /\ n # 1
        /\ GetMoves(PositionOf(n).heap, PositionOf(n).st) = <<>>
        /\ tree[n].visits >= 3
        /\ tree[n].childNodes = <<>>

\* C6: the search never changes the position it was called on: its data,
\* playerJustMoved and legal moves stay what they were before the call.
C6_RootstateUnchanged ==
    /\ Data(heap, rootstate) = snap.data
    /\ rootstate.playerJustMoved = snap.playerJustMoved
    /\ GetMoves(heap, rootstate) = snap.moves

\* the working copy of an OXO position has been played to the end
C6_Witness ==
    /\ pc = "backpropagate"
    /\ rootstate.cls = "OXO"
    /\ Len(snap.moves) >= 2
    /\ GetMoves(heap, state) = <<>>
    /\ i >= 2

\* C15: whenever the select loop is about to call UCTSelectChild on a node
\* (the node has no untried move and has children), the node and every one
\* of its children have visits >= 1, so log(visits) and the divisions by
\* the children's visits are defined.
C15_SelectChildDefined ==
    (pc = "select" /\ FullyExpanded(tree, node)) =>
        /\ tree[node].visits >= 1
        /\ \A c \in Children(node) : tree[c].visits >= 1

\* the select loop went down from a root with two children or more to a
\* node that has a child and no untried move, and will call UCTSelectChild
\* on it
C15_Witness ==
    /\ pc = "select"
    /\ node # 1
    /\ FullyExpanded(tree, node)
    /\ Len(tree[1].childNodes) >= 2
    /\ tree[node].visits >= 2

\* a turn of the select loop: UCTSelectChild was called on node and
\* returned node'
SelectStep == pc = "select" /\ pc' # "rollout" /\ node' # node

\* the place of child c in the childNodes of node n
ChildIndex(n, c) == CHOOSE k \in 1..Len(tree[n].childNodes) : tree[n].childNodes[k] = c

\* the child picked has the greatest key
C16_PicksMaximal ==
    SelectStep =>
        /\ node' \in Children(node)
        /\ \A c \in Children(node) : UCB(tree, node, c) <= UCB(tree, node, node')

C16_PicksFirst ==
    SelectStep =>
        \A c \in Children(node) :
            ChildIndex(node, c) < ChildIndex(node, node')
                => UCB(tree, node, c) < UCB(tree, node, node')

C16_PicksLast ==
    SelectStep =>
        \A c \in Children(node) :
            ChildIndex(node, c) > ChildIndex(node, node')
                => UCB(tree, node, c) < UCB(tree, node, node')

\* C16: UCTSelectChild returns a child with the greatest UCB1 value and,
\* when several share it, the one that comes first in childNodes.
C16_TieFirstMaximal == [][C16_PicksMaximal /\ C16_PicksFirst]_vars

\* C16 as amended: UCTSelectChild returns a child with the greatest UCB1
\* value and, when several share it, the one that comes last in childNodes.
C16_TieLastMaximal == [][C16_PicksMaximal /\ C16_PicksLast]_vars

\* the select loop has just picked a child that shares the greatest UCB1
\* value with a child before it in childNodes
C16_Witness ==
    /\ pc = "select"
    /\ node # 1
    /\ LET n == tree[node].parentNode
       IN  \E c \in Children(n) :
               /\ ChildIndex(n, c) < ChildIndex(n, node)
               /\ UCB(tree, n, c) = UCB(tree, n, node)
               /\ \A d \in Children(n) : UCB(tree, n, d) <= UCB(tree, n, node)

\* the nodes from n up to the root along parentNode
RECURSIVE Chain(_)
Chain(n) == IF n = 0 THEN {} ELSE {n} \cup Chain(tree[n].parentNode)

\* the iteration's backpropagation loop has run to its end
IterationOver == pc = "backpropagate" /\ node = 0

\* visits and wins2 of node n when the running iteration began; a node the
\* iteration created began with Node.__init__'s zeros
VisitsBefore(n) == IF n <= Len(iter.tree) THEN iter.tree[n].visits ELSE 0

Wins2Before(n) == IF n <= Len(iter.tree) THEN iter.tree[n].wins2 ELSE 0

\* what the iteration recorded at node n, in halves
Recorded(n) == tree[n].wins2 - Wins2Before(n)

\* C17: when an iteration's backpropagation is over, every node on the
\* parent chain from the node the expand step left (the new child, or the
\* node selection stopped at) up to the root has one visit more than
\* before the iteration and has wins raised by GetResult(its
\* playerJustMoved) of the rollout's final position; every other node has
\* the visits and wins it had before the iteration.
C17_BackpropagatesChain ==
    IterationOver =>
        \A n \in Nodes :
            IF n \in Chain(iter.leaf)
            THEN LET res == GetResult(heap, state, tree[n].playerJustMoved)
                 IN  /\ ~res.err
                     /\ tree[n].visits = VisitsBefore(n) + 1
                     /\ Recorded(n) = res.val
            ELSE /\ tree[n].visits = VisitsBefore(n)
                 /\ Recorded(n) = 0

\* an iteration that expanded a node two levels below the root has ended in
\* a draw, with nodes off its chain that earlier iterations visited
C17_Witness ==
    /\ IterationOver
    /\ Len(tree) > Len(iter.tree)
    /\ Cardinality(Chain(iter.leaf)) >= 3
    /\ Recorded(iter.leaf) = ResultDraw
    /\ \E n \in Nodes : n \notin Chain(iter.leaf) /\ tree[n].visits >= 1

\* C18: in a search over Nim or OXO every node below the root has the
\* playerJustMoved its parent has not, and when an iteration's
\* backpropagation is over the result recorded at a node of the chain and
\* the result recorded at its parent add up to 1.0 (2 halves).
C18_AlternatingViewpoints ==
    /\ \A n \in Nodes :
           tree[n].parentNode # 0 =>
               tree[n].playerJustMoved = 3 - tree[tree[n].parentNode].playerJustMoved
    /\ IterationOver =>
           \A n \in Chain(iter.leaf) :
               tree[n].parentNode # 0 =>
                   Recorded(n) + Recorded(tree[n].parentNode) = 2 * ResultDraw

\* a win recorded two levels below the root: a loss at the parent and a
\* win at the root, whose playerJustMoved is the winner's
C18_Witness ==
    /\ IterationOver
    /\ Cardinality(Chain(iter.leaf)) >= 3
    /\ Recorded(iter.leaf) = ResultWin
    /\ Recorded(tree[iter.leaf].parentNode) = ResultLoss
    /\ Recorded(1) = ResultWin

C19_OnePerIteration ==
    /\ pc = "select" => Len(tree) = Len(iter.tree)
    /\ pc \in {"rollout", "backpropagate"} =>
           Len(tree) = Len(iter.tree)
               + (IF iter.tree[iter.stop].untriedMoves # <<>> THEN 1 ELSE 0)
    /\ pc = "for" => Len(tree) <= i + 1

C19_OnlyExpandCreates ==
    Len(tree') # Len(tree) =>
        /\ Len(tree') = Len(tree) + 1
        /\ pc = "select"
        /\ pc' = "rollout"
        /\ tree[node].untriedMoves # <<>>

\* C19: an iteration adds one node to the tree when the node its
\* selection stopped at had an untried move, and none otherwise; only the
\* expand step creates a node, one at a time; after k iterations the tree
\* has at most k + 1 nodes.
C19_AtMostOneNodePerIteration ==
    [](C19_OnePerIteration) /\ [][C19_OnlyExpandCreates]_vars

\* after three iterations or more, one of which stopped at a node without
\* moves below the root and added nothing
C19_Witness ==
    /\ pc = "for"
    /\ i >= 3
    /\ Len(tree) >= 3
    /\ Len(tree) < i + 1
    /\ iter.stop # 1
    /\ Len(tree) = Len(iter.tree)

\* what a rollout uses up: the chips of Nim, the empty squares of OXO
Remaining(h, st) ==
    IF st.cls = "Nim" THEN st.chips
    ELSE Cardinality({k \in 1..9 : h[st.board][k] = 0})

C20_EndsTerminal ==
    /\ state # NoState => Remaining(heap, state) >= 0
    /\ pc = "backpropagate" =>
           /\ Remaining(heap, state) = 0
           /\ GetMoves(heap, state) = <<>>
           /\ ~GetResult(heap, state, 1).err
           /\ ~GetResult(heap, state, 2).err

C20_RolloutDecreases ==
    /\ (pc = "rollout" /\ pc' = "rollout") =>
           Remaining(heap', state') < Remaining(heap, state)
    /\ pc \in {"select", "rollout", "backpropagate"} => pc' # "error"

\* C20: in a search over Nim or OXO every turn of the rollout loop lowers
\* the chips (Nim) or the number of empty squares (OXO), which never go
\* below 0, so the loop ends; it ends with chips == 0 or a full board,
\* where GetResult returns for both players, and no step of an iteration
\* fails an assertion.
C20_RolloutTerminates ==
    [](C20_EndsTerminal) /\ [][C20_RolloutDecreases]_vars

\* a rollout that played from a new node with two chips or two empty
\* squares or more has ended and its results are being recorded
C20_Witness ==
    /\ pc = "backpropagate"
    /\ node # 0
    /\ iter.leaf > Len(iter.tree)
    /\ Remaining(PositionOf(iter.leaf).heap, PositionOf(iter.leaf).st) >= 2
    /\ Remaining(heap, state) = 0

\* the visits of the nodes of the sequence cs, added up
RECURSIVE SumVisits(_)
SumVisits(cs) ==
    IF cs = <<>> THEN 0 ELSE tree[Head(cs)].visits + SumVisits(Tail(cs))

\* an iteration has been completed and none is running
BetweenIterations == pc \in {"for", "done"} /\ i >= 1

\* the position node n stands for has a legal move
NonTerminalNode(n) == GetMoves(PositionOf(n).heap, PositionOf(n).st) # <<>>

C21_BelowRoot ==
    \A n \in Nodes :
        (n # 1 /\ NonTerminalNode(n)) =>
            tree[n].visits = 1 + SumVisits(tree[n].childNodes)

\* C21: after every completed iteration of a search over Nim or OXO the
\* root's visits are the sum of its children's visits, and every node below
\* the root whose position has a legal move has 1 plus the sum of its
\* children's visits.
C21_VisitsConserved ==
    BetweenIterations =>
        /\ tree[1].visits = SumVisits(tree[1].childNodes)
        /\ C21_BelowRoot

\* C21 as amended: the same, for the root only when the root position has
\* a legal move; the root of a position without moves is visited by every
\* iteration and has no children.
C21_VisitsConservedNonTerminalRoot ==
    BetweenIterations =>
        /\ IF NonTerminalNode(1)
           THEN tree[1].visits = SumVisits(tree[1].childNodes)
           ELSE tree[1].visits = i /\ tree[1].childNodes = <<>>
        /\ C21_BelowRoot

\* four iterations or more have left a node below the root with a child and
\* two visits or more, and a node of a position without moves that was
\* visited twice
C21_Witness ==
    /\ BetweenIterations
    /\ i >= 4
    /\ NonTerminalNode(1)
    /\ \E n \in Nodes :
           n # 1 /\ tree[n].childNodes # <<>> /\ tree[n].visits >= 2
    /\ \E n \in Nodes :
           n # 1 /\ ~NonTerminalNode(n) /\ tree[n].visits >= 2

\* C22: after every completed iteration, every child of a node that still
\* has an untried move has exactly one visit and no children: selection
\* never went below a node that is not fully expanded.
C22_NoDescentBelowUnexpanded ==
    BetweenIterations =>
        \A n \in Nodes :
            tree[n].untriedMoves # <<>> =>
                \A c \in Children(n) :
                    /\ tree[c].visits = 1
                    /\ tree[c].childNodes = <<>>

\* a node below the root that has a child and an untried move, in a tree
\* where selection went down from the root, which has two visits more than
\* it has children
C22_Witness ==
    /\ BetweenIterations
    /\ tree[1].untriedMoves = <<>>
    /\ tree[1].visits >= Len(tree[1].childNodes) + 2
    /\ \E n \in Nodes :
           /\ n # 1
           /\ tree[n].untriedMoves # <<>>
           /\ tree[n].childNodes # <<>>
           /\ tree[n].visits >= 2

C10_NoMove == RootTerminal => (pc # "done" /\ ~ret.returned)

C10_Raises == (RootTerminal /\ pc = "for" /\ i >= itermax) => pc' = "error"

\* C10: UCT called on a position without legal moves never returns a
\* move, whatever the budget: it is never done and has no return value,
\* and once the iterations are over its next step raises.
C10_TerminalRootRaises == [](C10_NoMove) /\ [][C10_Raises]_vars

C10_Witness == RootTerminal /\ pc = "error" /\ i >= 2

-----------------------------------------------------------------------------
(* Positions of a game in play, and copies of them                         *)

\* ZombieDice positions at the start of a round, as play leaves them:
\*   the constructor's position;
\*   round 3 after each player kept 12 brains in their first round;
\*   round 3 after player 2 kept 12 and then player 1 kept 13, which made
\*     it the last round;
\*   round 4 after player 2 kept 13, player 1 kept 13 and player 2 then
\*     kept nothing: the tiebreaker.
ZDStartPositions ==
    { [scores |-> <<0, 0, 0>>, pjm |-> 1, lastRound |-> FALSE,
       tiebreaker |-> FALSE, round |-> 1],
      [scores |-> <<0, 12, 12>>, pjm |-> 1, lastRound |-> FALSE,
       tiebreaker |-> FALSE, round |-> 3],
      [scores |-> <<0, 13, 12>>, pjm |-> 1, lastRound |-> TRUE,
       tiebreaker |-> FALSE, round |-> 3],
      [scores |-> <<0, 13, 13>>, pjm |-> 2, lastRound |-> TRUE,
       tiebreaker |-> TRUE, round |-> 4] }

ZDPosition(h, self, p) ==
    LET c == ZombieDiceState(h, self)
    IN  Cfg([c.heap EXCEPT ![c.st.playerScores] = p.scores],
            [c.st EXCEPT !.playerJustMoved = p.pjm,
                         !.lastRound = p.lastRound,
                         !.tiebreaker = p.tiebreaker,
                         !.round = p.round])

StartPositions ==
    {Cfg(EmptyHeap, NimState(ch)) : ch \in 0..MaxChips}
    \cup {OXOState(EmptyHeap, "rootstate")}
    \cup {ZDPosition(EmptyHeap, "rootstate", p) : p \in ZDStartPositions}

InitGame ==
    /\ \E c \in StartPositions : rootstate = c.st /\ heap = c.heap
    /\ state = NoState
    /\ tree = <<>>
    /\ node = 0
    /\ i = 0
    /\ itermax = 0
    /\ pc = "play"
    /\ ret = NoReturn
    /\ created = <<>>
    /\ snap = NoSnap
    /\ cloneMoves = <<>>
    /\ rolls = 0
    /\ iter = NoIter

\* state.DoMove(m) on the position in play, m one of its legal moves
Play ==
    /\ pc = "play"
    /\ state = NoState
    /\ \E k \in 1..Len(GetMoves(heap, rootstate)) :
         LET m == GetMoves(heap, rootstate)[k]
         IN  /\ IsRoll(rootstate, m) => rolls < MaxRolls
             /\ \E rnd \in Random(heap, rootstate, m) :
                  \E r \in {DoMove(heap, rootstate, m, rnd)} :
                      /\ rootstate' = r.st
                      /\ heap' = r.heap
                      /\ pc' = IF r.err THEN "error" ELSE pc
                      /\ rolls' = IF IsRoll(rootstate, m) THEN rolls + 1 ELSE rolls
    /\ UNCHANGED <<state, tree, node, i, itermax, ret, created, snap, cloneMoves>>
    /\ UNCHANGED iter

\* state = rootstate.Clone(), in every iteration of the UCT call made on
\* the position in play: the new copy takes the place of the copy of the
\* iteration before, if there is one
MakeClone ==
    /\ pc = "play"
    /\ LET c == Clone(heap, rootstate, "state")
       IN  /\ state' = c.st
           /\ heap' = c.heap
    /\ snap' = Observe(heap, rootstate)
    /\ cloneMoves' = <<>>
    /\ UNCHANGED <<rootstate, tree, node, i, itermax, pc, ret, created,
                   rolls>>
    /\ UNCHANGED iter

\* the moves GetMoves returns in some position of the game
GameMoves(st) ==
    CASE st.cls = "Nim" -> {1, 2, 3}
      [] st.cls = "OXO" -> 0..8
      [] st.cls = "ZombieDice" -> {"ROLL", "KEEP"}

\* some outcome of the random choices takes the copy c through the moves
\* p, none of them raising, to a position whose GetMoves() has m
RECURSIVE Replays(_, _, _)
Replays(c, p, m) ==
    IF c.err THEN FALSE
    ELSE IF p = <<>> THEN Contains(GetMoves(c.heap, c.st), m)
    ELSE \E pk \in RandomPicks(c.heap, c.st, Head(p)) :
           \E fs \in RandomFaces(c.st, Head(p)) :
             Replays(DoMove(c.heap, c.st, Head(p),
                            [picks |-> pk, faces |-> fs]), Tail(p), m)

\* m is a move of the node UCT's tree has after the moves p, the move of
\* one of its children (line 519) or one of its untried moves (line 527).
\* The moves of the root node, Node(state = rootstate), are
\* rootstate.GetMoves(), not the copy's.  The moves of a node below are
\* the GetMoves() of the copy of the iteration that created it, which made
\* the same moves with random outcomes of its own.
NodeHasMove(h, root, p, m) ==
    IF p = <<>> THEN Contains(GetMoves(h, root), m)
    ELSE Replays(Clone(h, root, "state"), p, m)

\* the moves UCT can hand to its copy st after the moves p: a move of the
\* node at p (lines 519, 527) or, once the first iteration has left the
\* root, a move of the rollout, one of the copy's own GetMoves() (line 533)
CopyMoves(h, root, st, p) ==
    {m \in GameMoves(st) :
        \/ p # <<>> /\ Contains(GetMoves(h, st), m)
        \/ NodeHasMove(h, root, p, m)}

\* state.DoMove(m) on the copy, m a move UCT hands to it
CloneMove ==
    /\ pc = "play"
    /\ state # NoState
    /\ Len(cloneMoves) < MaxCloneMoves
    /\ \E m \in CopyMoves(heap, rootstate, state, cloneMoves) :
         /\ IsRoll(state, m) => rolls < MaxRolls
         /\ \E rnd \in Random(heap, state, m) :
              \E r \in {DoMove(heap, state, m, rnd)} :
                  /\ state' = r.st
                  /\ heap' = r.heap
                  /\ pc' = IF r.err THEN "error" ELSE pc
                  /\ rolls' = IF IsRoll(state, m) THEN rolls + 1 ELSE rolls
         /\ cloneMoves' = Append(cloneMoves, m)
    /\ UNCHANGED <<rootstate, tree, node, i, itermax, ret, created, snap>>
    /\ UNCHANGED iter

\* UCT returns to UCTPlayGame: its copy is gone with its frame (the lists
\* of the copy are no longer held by anything), and play goes on with the
\* position
UCTReturn ==
    /\ pc = "play"
    /\ state # NoState
    /\ state' = NoState
    /\ heap' = [a \in DOMAIN heap |-> IF a[1] = "state" THEN <<>> ELSE heap[a]]
    /\ snap' = NoSnap
    /\ cloneMoves' = <<>>
    /\ UNCHANGED <<rootstate, tree, node, i, itermax, pc, ret, created,
                   rolls, iter>>

NextGame == Play \/ MakeClone \/ CloneMove \/ UCTReturn

SpecGame == InitGame /\ [][NextGame]_vars

-----------------------------------------------------------------------------
(* Calls of DoMove and GetResult on Nim and OXO positions in play          *)

\* the arguments a caller passes to DoMove: the moves of the game, legal in
\* this position or not, and the integers next to them
MoveArgs(st) == IF st.cls = "Nim" THEN 0..4 ELSE (0 - 1)..9

CallPositions ==
    {Cfg(EmptyHeap, NimState(ch)) : ch \in 0..MaxChips}
    \cup {OXOState(EmptyHeap, "rootstate")}

InitCalls ==
    /\ \E c \in CallPositions : rootstate = c.st /\ heap = c.heap
    /\ state = NoState
    /\ tree = <<>>
    /\ node = 0
    /\ i = 0
    /\ itermax = 0
    /\ pc = "play"
    /\ ret = NoReturn
    /\ created = <<>>
    /\ snap = NoSnap
    /\ cloneMoves = <<>>
    /\ rolls = 0
    /\ iter = NoIter

\* state.DoMove(m) for any m: ret says whether the call returned, snap what
\* the position looked like before it
CallDoMove ==
    /\ pc = "play"
    /\ \E m \in MoveArgs(rootstate) :
         LET r == DoMove(heap, rootstate, m, NoRandom)
         IN  /\ rootstate' = r.st
             /\ heap' = r.heap
             /\ ret' = [returned |-> ~r.err, op |-> "DoMove", arg |-> m,
                        val |-> 0]
    /\ snap' = Observe(heap, rootstate)
    /\ pc' = "called"
    /\ UNCHANGED <<state, tree, node, i, itermax, created, cloneMoves, rolls,
                   iter>>

\* state.GetResult(p) for either player: ret holds the value returned
CallGetResult ==
    /\ pc = "play"
    /\ \E p \in {1, 2} :
         LET r == GetResult(heap, rootstate, p)
         IN  ret' = [returned |-> ~r.err, op |-> "GetResult", arg |-> p,
                     val |-> r.val]
    /\ snap' = Observe(heap, rootstate)
    /\ pc' = "called"
    /\ UNCHANGED <<rootstate, heap, state, tree, node, i, itermax, created,
                   cloneMoves, rolls, iter>>

NextCalls == Play \/ CallDoMove \/ CallGetResult

SpecCalls == InitCalls /\ [][NextCalls]_vars

-----------------------------------------------------------------------------
(* Properties of the positions *)

Terminal(h, st) == GetMoves(h, st) = <<>>

\* C7: in every game, playing moves on s.Clone() leaves s unchanged: its legal moves,
\* playerJustMoved and, when s is terminal, its results stay the same.
C7_CloneIndependence ==
    state # NoState =>
        /\ GetMoves(heap, rootstate) = snap.moves
        /\ rootstate.playerJustMoved = snap.playerJustMoved
        /\ Terminal(heap, rootstate) =>
               <<GetResult(heap, rootstate, 1), GetResult(heap, rootstate, 2)>>
                   = snap.results

\* two moves were played on the copy of a ZombieDice position and changed
\* the copy's scores
C7_Witness ==
    /\ state # NoState
    /\ Len(cloneMoves) = 2
    /\ rootstate.cls = "ZombieDice"
    /\ Data(heap, state) # Data(heap, rootstate)
    /\ heap[state.playerScores] # heap[rootstate.playerScores]

\* C8: in every game, s.Clone() has the legal moves and the
\* playerJustMoved of s.
C8_CloneFaithful ==
    (state # NoState /\ cloneMoves = <<>>) =>
        /\ GetMoves(heap, state) = GetMoves(heap, rootstate)
        /\ state.playerJustMoved = rootstate.playerJustMoved

C9_Flips ==
    (pc = "play" /\ rootstate' # rootstate) =>
        rootstate'.playerJustMoved = 3 - rootstate.playerJustMoved

\* C9: in every game, DoMove with a legal move changes playerJustMoved to
\* the other player, 3 minus its previous value.
C9_DoMoveFlipsPlayer == [][C9_Flips]_vars

\* C11: in Nim and OXO, DoMove with a move that is not one of the
\* position's legal moves raises and leaves the position as it was: its
\* chips or board and its playerJustMoved keep their values.
C11_IllegalMoveRejected ==
    (pc = "called" /\ ret.op = "DoMove" /\ ~Contains(snap.moves, ret.arg)) =>
        /\ ~ret.returned
        /\ Data(heap, rootstate) = snap.data
        /\ rootstate.playerJustMoved = snap.playerJustMoved

\* C12: in Nim and OXO, GetResult on a position that has legal moves raises
\* for either player; it returns no value.
C12_ResultNeedsTerminal ==
    (pc = "called" /\ ret.op = "GetResult" /\ snap.moves # <<>>) =>
        ~ret.returned

\* player p holds all three squares of one of the eight lines
OXOHasLine(h, st, p) ==
    \E k \in 1..Len(OXOLines) :
        \A j \in 1..3 : h[st.board][OXOLines[k][j] + 1] = p

\* C13: on an OXO board where one player holds a complete line and the
\* other holds none, GetResult is 1.0 for the player with the line and 0.0
\* for the other, with or without empty squares left.
C13_LineWins ==
    (pc = "called" /\ ret.op = "GetResult" /\ rootstate.cls = "OXO") =>
        /\ (OXOHasLine(heap, rootstate, ret.arg)
              /\ ~OXOHasLine(heap, rootstate, 3 - ret.arg))
             => (ret.returned /\ ret.val = ResultWin)
        /\ (OXOHasLine(heap, rootstate, 3 - ret.arg)
              /\ ~OXOHasLine(heap, rootstate, ret.arg))
             => (ret.returned /\ ret.val = ResultLoss)

\* player p can make every play from the Nim position st end in a position
\* with GetResult(p) == 1.0, whatever the other player moves
RECURSIVE NimForced(_, _)
NimForced(st, p) ==
    LET ms == GetMoves(EmptyHeap, st)
        After(m) == DoMove(EmptyHeap, st, m, NoRandom).st
    IN  IF ms = <<>> THEN GetResult(EmptyHeap, st, p) = Ok(ResultWin)
        ELSE IF 3 - st.playerJustMoved = p
        THEN \E k \in 1..Len(ms) : NimForced(After(ms[k]), p)
        ELSE \A k \in 1..Len(ms) : NimForced(After(ms[k]), p)

\* C14: in a Nim position with n >= 1 chips (the starting positions, player
\* 1 to move, and every position play reaches from them): if n mod 4 is
\* not 0, taking n mod 4 chips is a legal move after which the player to
\* move wins every play by some strategy; if n mod 4 is 0, after every
\* legal move the other player wins every play by some strategy.
C14_NimStrategy ==
    (pc = "play" /\ rootstate.cls = "Nim" /\ rootstate.chips >= 1) =>
        LET n == rootstate.chips
            me == 3 - rootstate.playerJustMoved
            ms == GetMoves(heap, rootstate)
            After(m) == DoMove(heap, rootstate, m, NoRandom).st
        IN  IF n % 4 # 0
            THEN Contains(ms, n % 4) /\ NimForced(After(n % 4), me)
            ELSE \A k \in 1..Len(ms) : NimForced(After(ms[k]), 3 - me)

\* player 1 took 1 chip of 5 and left player 2 to move with 4 chips, from
\* where player 1 wins every play
C14_Witness ==
    /\ pc = "play"
    /\ rootstate.cls = "Nim"
    /\ rootstate.chips = 4
    /\ rootstate.playerJustMoved = 1
    /\ NimForced(rootstate, 1)
    /\ ~NimForced(rootstate, 2)

====
